---- MODULE Spec2Model ----
(***************************************************************************)
(* Model of services/verification/src/services/Injector.ts: the bytecode   *)
(* comparator (compareBytecodes), the creation-data resolver               *)
(* (getCreationData), the candidate loop (matchBytecodeToAddress) and the  *)
(* verification pipeline (inject), first as one call and then as several   *)
(* concurrent calls on one Injector.                                       *)
(*                                                                         *)
(* A hex string "0x<bytes>" is modelled as the sequence of its bytes, so   *)
(* "0x" is << >> and the string's length is 2 + 2 * Len.  JavaScript's     *)
(* null and undefined are the two sequences NULL and UNDEFINED, which hold *)
(* a number that is no byte.                                               *)
(***************************************************************************)
EXTENDS Integers, Sequences, FiniteSets, TLC

VARIABLES
    pc,                 \* position of the inject call
    chains,             \* this.chains[chain]: the chain's configured endpoints
    inputData,          \* the request given to inject
    compilationResult,  \* result of recompile
    mode,               \* "bypass" (inputData.bytecode given) or "loop"
    idx,                \* 1-based position of the loop in addresses
    address,            \* the checksummed address of the current candidate
    deployedBytecode,   \* compareBytecodes' first argument
    creationData,       \* compareBytecodes' creationData
    compareResult,      \* what compareBytecodes returned
    compareThrew,       \* compareBytecodes rejected with the resolver's error
    match,              \* the Match being built
    attempts,           \* strategies tried by getCreationData for this candidate
    fetched,            \* number of getBytecode calls, per candidate
    compared,           \* number of compareBytecodes calls, per candidate
    resolved,           \* number of getCreationData calls, per candidate
    tried,              \* outcome of every candidate the loop has finished
    store,              \* the calls made on fileService, in order
    error,              \* the message of the error inject failed with
    procs,              \* the concurrent inject calls: their locals and position
    fs                  \* the calls they made on the one fileService, in order

\* The variables of the single call.
single == << pc, chains, inputData, compilationResult, mode, idx, address,
             deployedBytecode, creationData, compareResult, compareThrew, match,
             attempts, fetched, compared, resolved, tried, store, error >>

vars == << single, procs, fs >>

-----------------------------------------------------------------------------
(* Bounds and the values the environment draws from.                       *)

MaxAddrs == 2

\* The number of concurrent inject calls.
MaxRequests == 2

NULL == << -1 >>
UNDEFINED == << -2 >>

NullAddress == "null"
Addresses == {"a1", "a2"}

\* Sequences over S of length 0..n.
SeqUpTo(S, n) == UNION { [1..k -> S] : k \in 0..n }

\* An auxiliary-data trailer: a one-byte blob followed by its two-byte
\* big-endian length.  The blob stands for the CBOR map it encodes.
BzzR0Trailer == << 10, 0, 1 >>
BzzR1Trailer == << 11, 0, 1 >>
IpfsTrailer == << 12, 0, 1 >>
OtherTrailer == << 13, 0, 1 >>

\* What the compiler produces: the runtime code <<1>> and the creation code
\* <<7, 1>>, both ending in the same trailer (or in none).
CompiledArtifacts ==
    { [deployedBytecode |-> <<1>> \o t, bytecode |-> <<7, 1>> \o t] :
        t \in { << >>, BzzR0Trailer, IpfsTrailer, OtherTrailer } }

\* What a node answers for the code at an address, and what a monitor
\* hands over as the bytecode it has fetched: no code, the compiled code
\* with no, the same or another trailer (one of them without a content
\* hash), other code of the same length, longer code.
DeployedPool ==
    { << >>, <<1>>, <<1>> \o BzzR0Trailer, <<1>> \o BzzR1Trailer,
      <<1>> \o OtherTrailer, <<2>> \o BzzR0Trailer, <<1, 2>> }

\* What a creation transaction's input can be: the compiled creation code
\* with no, the same or another trailer, with or without constructor
\* arguments, and another program.
CreationPool ==
    { <<7, 1>>, <<7, 1>> \o BzzR0Trailer, <<7, 1>> \o BzzR0Trailer \o <<9>>,
      <<7, 1>> \o BzzR1Trailer, <<8>> }

\* An awaited call that rejects.
THROW == << -3 >>

ChainConfigs ==
    [ contractFetchAddress : BOOLEAN, txRegex : BOOLEAN,
      graphQLFetchAddress : BOOLEAN, archiveWeb3 : BOOLEAN ]

-----------------------------------------------------------------------------
(* Strings.                                                                *)

\* "0x..." .length
StrLen(s) == 2 + 2 * Len(s)

\* JavaScript truthiness of a string | null | undefined.
Truthy(s) == s # NULL /\ s # UNDEFINED /\ StrLen(s) > 0

\* String.prototype.startsWith on two 0x-prefixed strings.
startsWith(s, prefix) ==
    /\ Len(prefix) <= Len(s)
    /\ SubSeq(s, 1, Len(prefix)) = prefix

\* String.prototype.indexOf(prefix) on two 0x-prefixed strings, in bytes:
\* the characters "0x" occur only at the start of s, so prefix is found at
\* index 0 or nowhere.
indexOf(s, prefix) == IF startsWith(s, prefix) THEN 0 ELSE -1

\* s.slice(n), n counted in bytes after the "0x".
sliceFrom(s, n) == SubSeq(s, n + 1, Len(s))

\* getBytecodeWithoutMetadata (utils): the last two bytes give the length of
\* the auxiliary data; a trailer that does not fit is no trailer.
trimMetadata(bytecode) ==
    IF Len(bytecode) >= 2
    THEN LET size == bytecode[Len(bytecode) - 1] * 256 + bytecode[Len(bytecode)]
         IN  IF size + 2 <= Len(bytecode)
             THEN SubSeq(bytecode, 1, Len(bytecode) - size - 2)
             ELSE bytecode
    ELSE bytecode

\* Web3.utils.toChecksumAddress
toChecksumAddress(a) ==
    CASE a = "a1" -> "A1"
      [] a = "a2" -> "A2"
      [] OTHER -> a

-----------------------------------------------------------------------------
(* compareBytecodes.                                                       *)

NoArgs == UNDEFINED

Pending == [status |-> "pending", encodedConstructorArgs |-> NoArgs]

\* compareRuntime without its first test, the equality of the full bytecodes.
compareRuntimeNoEquality(deployed, compiledRuntimeBytecode) ==
    IF Truthy(deployed) /\ StrLen(deployed) > 2
    THEN IF trimMetadata(deployed) = trimMetadata(compiledRuntimeBytecode)
         THEN "partial"
         ELSE IF StrLen(trimMetadata(deployed))
                   = StrLen(trimMetadata(compiledRuntimeBytecode))
              THEN "creation"
              ELSE "null"
    ELSE "null"

\* compareRuntime without the comparison of the trimmed bytecodes.
compareRuntimeNoTrim(deployed, compiledRuntimeBytecode) ==
    IF Truthy(deployed) /\ StrLen(deployed) > 2
    THEN IF deployed = compiledRuntimeBytecode
         THEN "perfect"
         ELSE IF StrLen(trimMetadata(deployed))
                   = StrLen(trimMetadata(compiledRuntimeBytecode))
              THEN "creation"
              ELSE "null"
    ELSE "null"

\* Lines 215-226: the comparison of the runtime bytecodes.  "creation" says
\* that the comparison goes on with the creation data.
compareRuntime(deployed, compiledRuntimeBytecode) ==
    IF Truthy(deployed) /\ StrLen(deployed) > 2
    THEN IF deployed = compiledRuntimeBytecode
         THEN "perfect"
         ELSE IF trimMetadata(deployed) = trimMetadata(compiledRuntimeBytecode)
              THEN "partial"
              ELSE IF StrLen(trimMetadata(deployed))
                        = StrLen(trimMetadata(compiledRuntimeBytecode))
                   THEN "creation"
                   ELSE "null"
    ELSE "null"

\* The resolver called whatever the caller supplied.
needsResolverAlways(suppliedCreationData) == TRUE

\* Line 227: creationData || await this.getCreationData(chain, address)
needsResolver(suppliedCreationData) == ~Truthy(suppliedCreationData)

\* The slice taken one byte too early.
extractEncodedConstructorArgsEarly(data, compiledCreationBytecode) ==
    LET startIndex == indexOf(data, compiledCreationBytecode)
    IN  sliceFrom(data, startIndex + Len(compiledCreationBytecode) - 1)

\* Lines 295-298.
extractEncodedConstructorArgs(data, compiledCreationBytecode) ==
    LET startIndex == indexOf(data, compiledCreationBytecode)
    IN  sliceFrom(data, startIndex + Len(compiledCreationBytecode))

\* compareCreation extracting constructor arguments on a partial match too.
compareCreationArgsOnPartial(data, compiledCreationBytecode) ==
    IF Truthy(data)
    THEN IF startsWith(data, compiledCreationBytecode)
         THEN [status |-> "perfect",
               encodedConstructorArgs |->
                   extractEncodedConstructorArgs(data, compiledCreationBytecode)]
         ELSE IF startsWith(data, trimMetadata(compiledCreationBytecode))
              THEN [status |-> "partial",
                    encodedConstructorArgs |->
                        extractEncodedConstructorArgs(
                            data, trimMetadata(compiledCreationBytecode))]
              ELSE [status |-> "null", encodedConstructorArgs |-> NoArgs]
    ELSE [status |-> "null", encodedConstructorArgs |-> NoArgs]

\* Lines 228-245: the comparison with the creation data.
compareCreation(data, compiledCreationBytecode) ==
    IF Truthy(data)
    THEN IF startsWith(data, compiledCreationBytecode)
         THEN [status |-> "perfect",
               encodedConstructorArgs |->
                   extractEncodedConstructorArgs(data, compiledCreationBytecode)]
         ELSE IF startsWith(data, trimMetadata(compiledCreationBytecode))
              THEN [status |-> "partial", encodedConstructorArgs |-> NoArgs]
              ELSE [status |-> "null", encodedConstructorArgs |-> NoArgs]
    ELSE [status |-> "null", encodedConstructorArgs |-> NoArgs]

-----------------------------------------------------------------------------
(* getCreationData: which strategy comes next.                             *)

\* Lines 280-292, reached when the indexer query is not configured or threw.
afterGraphQL(chain) ==
    IF chain.archiveWeb3 THEN "archive" ELSE "notFound"

\* The archive search tried before the indexer query.
afterScrapeArchiveFirst(chain) ==
    IF chain.archiveWeb3 THEN "archive"
    ELSE IF chain.graphQLFetchAddress THEN "graphql" ELSE "notFound"

\* Lines 270-278, reached when scraping is not configured or threw.
afterScrape(chain) ==
    IF chain.graphQLFetchAddress THEN "graphql" ELSE afterGraphQL(chain)

\* Lines 256-268.
resolverEntry(chain) ==
    IF chain.contractFetchAddress /\ chain.txRegex THEN "scrape" ELSE afterScrape(chain)

\* What an awaited strategy can do: reject, resolve to nothing, resolve to
\* a transaction input.
StrategyOutcomes == { THROW, NULL } \cup CreationPool

\* Lines 263-267, 273-277, 283-287: `return await strategy()` in a try whose
\* catch logs the error.
attempt(strategy, outcome) ==
    [strategy |-> strategy, outcome |-> outcome, logged |-> (outcome = THROW)]

-----------------------------------------------------------------------------
(* matchBytecodeToAddress and inject: helpers.                             *)

NoMatch ==
    [address |-> NullAddress, status |-> "null",
     encodedConstructorArgs |-> NoArgs, message |-> "undefined"]

NoError == [named |-> FALSE, cause |-> "none"]

\* validateAddresses without its loop over the addresses.
validateAddressesNonEmptyOnly(addresses) == Len(addresses) # 0

\* Lines 304-314.
validateAddresses(addresses) ==
    /\ Len(addresses) # 0
    /\ \A k \in 1..Len(addresses) : addresses[k] # NullAddress

\* A chain parameter that is not a string (express hands over what the
\* request held); "" stands for the falsy ones: undefined, null, "".
NonStringChain == "typeof number"

typeof(chain) == IF chain = NonStringChain THEN "number" ELSE "string"

\* Lines 320-324.
validateChain(chain) == chain # "" /\ typeof(chain) = "string"

\* Lines 181-187: the message for a single candidate that does not match.
diagnostic(deployed) ==
    IF ~Truthy(deployed) THEN "unavailable"
    ELSE IF deployed = << >> THEN "noContract"
    ELSE "mismatch"

\* loopBody without the break on a match.
loopBodyNoBreak(m, threw, result, deployed, addr, n) ==
    LET m1 == IF threw /\ n = 1 THEN [m EXCEPT !.message = "problems"] ELSE m
    IN  IF ~threw /\ result.status # "null"
        THEN [match |-> [address |-> addr, status |-> result.status,
                         encodedConstructorArgs |-> result.encodedConstructorArgs,
                         message |-> "undefined"],
              break |-> FALSE]
        ELSE IF n = 1 /\ m1.message = "undefined"
             THEN [match |-> [m1 EXCEPT !.message = diagnostic(deployed)],
                   break |-> FALSE]
             ELSE [match |-> m1, break |-> FALSE]

\* loopBody leaving the loop when the fetch or the comparison failed.
loopBodyStopOnFailure(m, threw, result, deployed, addr, n) ==
    LET m1 == IF threw /\ n = 1 THEN [m EXCEPT !.message = "problems"] ELSE m
    IN  IF ~threw /\ result.status # "null"
        THEN [match |-> [address |-> addr, status |-> result.status,
                         encodedConstructorArgs |-> result.encodedConstructorArgs,
                         message |-> "undefined"],
              break |-> TRUE]
        ELSE IF n = 1 /\ m1.message = "undefined"
             THEN [match |-> [m1 EXCEPT !.message = diagnostic(deployed)],
                   break |-> threw \/ deployed = NULL]
             ELSE [match |-> m1, break |-> threw \/ deployed = NULL]

\* loopBody writing its diagnostic whatever the number of candidates.
loopBodyAlwaysDiagnose(m, threw, result, deployed, addr, n) ==
    LET m1 == IF threw THEN [m EXCEPT !.message = "problems"] ELSE m
    IN  IF ~threw /\ result.status # "null"
        THEN [match |-> [address |-> addr, status |-> result.status,
                         encodedConstructorArgs |-> result.encodedConstructorArgs,
                         message |-> "undefined"],
              break |-> TRUE]
        ELSE IF m1.message = "undefined"
             THEN [match |-> [m1 EXCEPT !.message = diagnostic(deployed)],
                   break |-> FALSE]
             ELSE [match |-> m1, break |-> FALSE]

\* Lines 166-188: what one turn of the loop does with the comparison of
\* the candidate addr; n is addresses.length.
loopBody(m, threw, result, deployed, addr, n) ==
    LET m1 == IF threw /\ n = 1 THEN [m EXCEPT !.message = "problems"] ELSE m
    IN  IF ~threw /\ result.status # "null"
        THEN [match |-> [address |-> addr, status |-> result.status,
                         encodedConstructorArgs |-> result.encodedConstructorArgs,
                         message |-> "undefined"],
              break |-> TRUE]
        ELSE IF n = 1 /\ m1.message = "undefined"
             THEN [match |-> [m1 EXCEPT !.message = diagnostic(deployed)],
                   break |-> FALSE]
             ELSE [match |-> m1, break |-> FALSE]

\* Lines 423-426.
\* dispatch taking the bypass whatever the number of addresses.
dispatchNoCount(input) ==
    IF Truthy(input.bytecode) THEN "bypass" ELSE "loop"

\* Lines 352-357 and 373: the way a compiled request takes.
dispatch(input) ==
    IF Truthy(input.bytecode)
    THEN IF Len(input.addresses) # 1 THEN "multiple" ELSE "bypass"
    ELSE "loop"

\* The test of a match that looks at the address only.
isMatchAddressOnly(m) == m.address # NullAddress

\* Line 386: the test that opens the persistence branch.
isMatch(m) == m.address # NullAddress /\ m.status # "null"

statusToMatchQuality(status) ==
    IF status = "perfect" THEN "full"
    ELSE IF status = "partial" THEN "partial"
    ELSE "undefined"

\* Lines 428-432, on the source paths of the model.
sanitizePath(originalPath) ==
    CASE originalPath = "A.sol" -> "A.sol"
      [] originalPath = "../B c.sol" -> "_B_c.sol"
      [] OTHER -> originalPath

\* contract.solidity: the paths of the sources, in insertion order.
SourcePaths == << "A.sol", "../B c.sol" >>

\* cborDecode (core): the keys of the map in the auxiliary data, or "fail"
\* when the bytes end in no auxiliary data.
cborDecode(bytes) ==
    IF bytes # trimMetadata(bytes)
    THEN LET blob == bytes[Len(bytes) - 2]
         IN  CASE blob = 10 -> "bzzr0"
               [] blob = 11 -> "bzzr1"
               [] blob = 12 -> "ipfs"
               [] OTHER -> "other"
    ELSE "fail"

\* getMetadataPathFromCborEncoded decoding the bytecode found on the chain.
getMetadataPathFromDeployed(compiled) ==
    LET cborData == cborDecode(deployedBytecode)
    IN  CASE cborData = "bzzr0" -> "/swarm/bzzr0/hash"
          [] cborData = "bzzr1" -> "/swarm/bzzr1/hash"
          [] cborData = "ipfs" -> "/ipfs/multihash"
          [] OTHER -> "null"

\* Lines 434-453.
getMetadataPathFromCborEncoded(compiled) ==
    LET cborData == cborDecode(compiled.deployedBytecode)
    IN  CASE cborData = "bzzr0" -> "/swarm/bzzr0/hash"
          [] cborData = "bzzr1" -> "/swarm/bzzr1/hash"
          [] cborData = "ipfs" -> "/ipfs/multihash"
          [] OTHER -> "null"

saveCall(quality, chain, addr, fileName) ==
    [op |-> "save", quality |-> quality, chain |-> chain, address |-> addr,
     fileName |-> fileName]

\* Lines 481-493.
storeSources(quality, chain, addr) ==
    [k \in 1..Len(SourcePaths) |->
        saveCall(quality, chain, addr, sanitizePath(SourcePaths[k]))]

\* Lines 463-472.
storeMetadata(quality, chain, addr) ==
    << saveCall(quality, chain, addr, "metadata.json") >>

\* Lines 503-513.
storeConstructorArgs(quality, chain, addr) ==
    << saveCall(quality, chain, addr, "constructor-args.txt") >>

\* Lines 387-393: the calls at the content address.
storeAtPath(metadataPath, chain, addr) ==
    IF metadataPath # "null"
    THEN << saveCall("", "", "", metadataPath),
            [op |-> "deletePartial", quality |-> "", chain |-> chain,
             address |-> addr, fileName |-> ""] >>
    ELSE << >>

\* persist removing the partial record after its saves.
persistDeleteLast(m, chain, compiled) ==
    LET metadataPath == getMetadataPathFromCborEncoded(compiled)
        status == IF metadataPath # "null" THEN m.status ELSE "partial"
        matchQuality == statusToMatchQuality(status)
        atPath == storeAtPath(metadataPath, chain, m.address)
    IN  [match |-> [m EXCEPT !.status = status],
         calls |-> SubSeq(atPath, 1, 1)
                     \o storeSources(matchQuality, chain, m.address)
                     \o storeMetadata(matchQuality, chain, m.address)
                     \o (IF Truthy(m.encodedConstructorArgs)
                         THEN storeConstructorArgs(matchQuality, chain, m.address)
                         ELSE << >>)
                     \o SubSeq(atPath, 2, Len(atPath))]

\* persist keeping the status of the comparison when no path was derived.
persistNoDowngrade(m, chain, compiled) ==
    LET metadataPath == getMetadataPathFromCborEncoded(compiled)
        matchQuality == statusToMatchQuality(m.status)
    IN  [match |-> m,
         calls |-> storeAtPath(metadataPath, chain, m.address)
                     \o storeSources(matchQuality, chain, m.address)
                     \o storeMetadata(matchQuality, chain, m.address)
                     \o (IF Truthy(m.encodedConstructorArgs)
                         THEN storeConstructorArgs(matchQuality, chain, m.address)
                         ELSE << >>)]

\* Lines 386-401: every call on fileService of a matched request.
persist(m, chain, compiled) ==
    LET metadataPath == getMetadataPathFromCborEncoded(compiled)
        status == IF metadataPath # "null" THEN m.status ELSE "partial"
        matchQuality == statusToMatchQuality(status)
    IN  [match |-> [m EXCEPT !.status = status],
         calls |-> storeAtPath(metadataPath, chain, m.address)
                     \o storeSources(matchQuality, chain, m.address)
                     \o storeMetadata(matchQuality, chain, m.address)
                     \o (IF Truthy(m.encodedConstructorArgs)
                         THEN storeConstructorArgs(matchQuality, chain, m.address)
                         ELSE << >>)]

-----------------------------------------------------------------------------
(* The state machine of one inject call.                                   *)

Candidates == 1..MaxAddrs

\* The requests: creation data comes only with a known bytecode.
Requests ==
    { r \in [ chain : {"1", "", NonStringChain},
              addresses : SeqUpTo(Addresses \cup {NullAddress}, MaxAddrs),
              bytecode : {UNDEFINED} \cup DeployedPool,
              creationData : {UNDEFINED} \cup CreationPool,
              contractValid : BOOLEAN ] :
        r.bytecode = UNDEFINED => r.creationData = UNDEFINED }

NoRequest ==
    [chain |-> "", addresses |-> << >>, bytecode |-> UNDEFINED,
     creationData |-> UNDEFINED, contractValid |-> TRUE]

NoArtifact == [deployedBytecode |-> NULL, bytecode |-> NULL]

RequestIds == 1..MaxRequests

\* An inject call that has not been made: its locals are not yet set.
NoProc ==
    [pc |-> "idle", input |-> NoRequest, compiled |-> NoArtifact,
     deployed |-> NULL, match |-> NoMatch, pending |-> << >>]

Init ==
    /\ pc = "idle"
    /\ chains \in ChainConfigs
    /\ inputData = NoRequest
    /\ compilationResult = NoArtifact
    /\ mode = "none"
    /\ idx = 1
    /\ address = NullAddress
    /\ deployedBytecode = NULL
    /\ creationData = NULL
    /\ compareResult = Pending
    /\ compareThrew = FALSE
    /\ match = NoMatch
    /\ attempts = << >>
    /\ fetched = [k \in Candidates |-> 0]
    /\ compared = [k \in Candidates |-> 0]
    /\ resolved = [k \in Candidates |-> 0]
    /\ tried = << >>
    /\ store = << >>
    /\ error = NoError
    /\ procs = [r \in RequestIds |-> NoProc]
    /\ fs = << >>

Fail(cause, named) ==
    /\ pc' = "failed"
    /\ error' = [named |-> named, cause |-> cause]

\* Lines 336-346: inject up to its first await.
Inject ==
    /\ pc = "idle"
    /\ \E r \in Requests :
        /\ inputData' = r
        /\ IF ~validateAddresses(r.addresses)
           THEN Fail("Missing address for submitted sources/metadata", FALSE)
           ELSE IF ~validateChain(r.chain)
           THEN Fail("Missing chain name for submitted sources/metadata", FALSE)
           ELSE /\ pc' = IF r.contractValid THEN "recompile" ELSE "fetchMissing"
                /\ UNCHANGED error
    /\ UNCHANGED << procs, fs >>
    /\ UNCHANGED << chains, compilationResult, mode, idx, address,
                    deployedBytecode, creationData, compareResult, compareThrew,
                    match, attempts, fetched, compared, resolved, tried, store >>

\* Line 345: await CheckedContract.fetchMissing(contract, wrappedLogger),
\* which completes the contract in place or rejects.
FetchMissing ==
    /\ pc = "fetchMissing"
    /\ \E ok \in BOOLEAN :
        IF ok
        THEN /\ inputData' = [inputData EXCEPT !.contractValid = TRUE]
             /\ pc' = "recompile"
             /\ UNCHANGED error
        ELSE /\ Fail("fetchMissing", FALSE)
             /\ UNCHANGED inputData
    /\ UNCHANGED << procs, fs >>
    /\ UNCHANGED << chains, compilationResult, mode, idx, address,
                    deployedBytecode, creationData, compareResult, compareThrew,
                    match, attempts, fetched, compared, resolved, tried, store >>

\* Lines 348-380: await recompile(...), then the choice between the known
\* bytecode and the candidate loop.
Recompile ==
    /\ pc = "recompile"
    /\ \E art \in CompiledArtifacts \cup {NoArtifact} :
        IF art = NoArtifact
        THEN /\ Fail("recompile", FALSE)
             /\ UNCHANGED << compilationResult, mode, deployedBytecode,
                             creationData >>
        ELSE /\ compilationResult' = art
             /\ CASE dispatch(inputData) = "multiple" ->
                       /\ Fail("Injector cannot work with multiple addresses if bytecode is provided", FALSE)
                       /\ UNCHANGED << mode, deployedBytecode, creationData >>
                  [] dispatch(inputData) = "bypass" ->
                       /\ mode' = "bypass"
                       /\ deployedBytecode' = inputData.bytecode
                       /\ creationData' = inputData.creationData
                       /\ pc' = "compare"
                       /\ UNCHANGED error
                  [] OTHER ->
                       /\ mode' = "loop"
                       /\ pc' = "getBytecode"
                       /\ UNCHANGED << deployedBytecode, creationData, error >>
    /\ UNCHANGED << procs, fs >>
    /\ UNCHANGED << chains, inputData, idx, address, compareResult,
                    compareThrew, match, attempts, fetched, compared, resolved,
                    tried, store >>

\* Lines 150-170: the candidate is normalised and its bytecode fetched; a
\* rejected fetch leaves deployedBytecode null.
GetBytecode ==
    /\ pc = "getBytecode"
    /\ address' = toChecksumAddress(inputData.addresses[idx])
    /\ \E answer \in DeployedPool \cup {THROW} :
        deployedBytecode' = IF answer = THROW THEN NULL ELSE answer
    /\ fetched' = [fetched EXCEPT ![idx] = @ + 1]
    /\ creationData' = NULL
    /\ compareResult' = Pending
    /\ compareThrew' = FALSE
    /\ attempts' = << >>
    /\ pc' = "compare"
    /\ UNCHANGED << procs, fs >>
    /\ UNCHANGED << chains, inputData, compilationResult, mode, idx, match,
                    compared, resolved, tried, store, error >>

\* Lines 215-227: compareBytecodes up to its await of getCreationData,
\* and getCreationData up to its first strategy (lines 254-262).
CompareBytecodes ==
    /\ pc = "compare"
    /\ compared' = [compared EXCEPT ![idx] = @ + 1]
    /\ LET step == compareRuntime(deployedBytecode, compilationResult.deployedBytecode)
       IN  IF step = "creation"
           THEN IF needsResolver(creationData)
                THEN /\ resolved' = [resolved EXCEPT ![idx] = @ + 1]
                     /\ attempts' = << >>
                     /\ pc' = resolverEntry(chains)
                     /\ UNCHANGED compareResult
                ELSE /\ pc' = "compareCreation"
                     /\ UNCHANGED << resolved, attempts, compareResult >>
           ELSE /\ compareResult' =
                       [status |-> step, encodedConstructorArgs |-> NoArgs]
                /\ pc' = "compared"
                /\ UNCHANGED << resolved, attempts >>
    /\ UNCHANGED << procs, fs >>
    /\ UNCHANGED << chains, inputData, compilationResult, mode, idx, address,
                    deployedBytecode, creationData, compareThrew, match,
                    fetched, tried, store, error >>

\* One strategy of getCreationData: its result is returned as it is, its
\* rejection is logged and the next strategy follows.
Strategy(name, next) ==
    /\ \E outcome \in StrategyOutcomes :
        /\ attempts' = Append(attempts, attempt(name, outcome))
        /\ IF outcome = THROW
           THEN /\ pc' = next
                /\ UNCHANGED creationData
           ELSE /\ creationData' = outcome
                /\ pc' = "compareCreation"
    /\ UNCHANGED << procs, fs >>
    /\ UNCHANGED << chains, inputData, compilationResult, mode, idx, address,
                    deployedBytecode, compareResult, compareThrew, match,
                    fetched, compared, resolved, tried, store, error >>

\* Lines 259-268.
Scrape ==
    /\ pc = "scrape"
    /\ Strategy("scrape", afterScrape(chains))

\* Lines 270-278.
GraphQL ==
    /\ pc = "graphql"
    /\ Strategy("graphql", afterGraphQL(chains))

\* Lines 280-288.
Archive ==
    /\ pc = "archive"
    /\ Strategy("archive", "notFound")

\* Lines 290-292: getCreationData throws, and compareBytecodes, which has
\* no handler around its await, rejects with the same error.
NotFound ==
    /\ pc = "notFound"
    /\ compareThrew' = TRUE
    /\ pc' = "compared"
    /\ UNCHANGED << procs, fs >>
    /\ UNCHANGED << chains, inputData, compilationResult, mode, idx, address,
                    deployedBytecode, creationData, compareResult, match,
                    attempts, fetched, compared, resolved, tried, store, error >>

\* Lines 228-245.
CompareCreation ==
    /\ pc = "compareCreation"
    /\ compareResult' = compareCreation(creationData, compilationResult.bytecode)
    /\ pc' = "compared"
    /\ UNCHANGED << procs, fs >>
    /\ UNCHANGED << chains, inputData, compilationResult, mode, idx, address,
                    deployedBytecode, creationData, compareThrew, match,
                    attempts, fetched, compared, resolved, tried, store, error >>

\* Lines 360-369: the known bytecode's comparison returns into inject.
BypassReturn ==
    /\ pc = "compared"
    /\ mode = "bypass"
    /\ IF compareThrew
       THEN /\ Fail("Cannot fetch creation data", FALSE)
            /\ UNCHANGED << address, match >>
       ELSE /\ address' = toChecksumAddress(inputData.addresses[1])
            /\ match' = [address |-> address', status |-> compareResult.status,
                         encodedConstructorArgs |-> compareResult.encodedConstructorArgs,
                         message |-> "undefined"]
            /\ pc' = "matched"
            /\ UNCHANGED error
    /\ UNCHANGED << procs, fs >>
    /\ UNCHANGED << chains, inputData, compilationResult, mode, idx,
                    deployedBytecode, creationData, compareResult, compareThrew,
                    attempts, fetched, compared, resolved, tried, store >>

\* Lines 171-191: the comparison returns into the loop, which breaks,
\* goes on with the next candidate or ends.
LoopStep ==
    /\ pc = "compared"
    /\ mode = "loop"
    /\ LET turn == loopBody(match, compareThrew, compareResult, deployedBytecode,
                            address, Len(inputData.addresses))
       IN  /\ match' = turn.match
           /\ tried' = Append(tried,
                 [address |-> address,
                  fetch |-> IF deployedBytecode = NULL THEN "failed" ELSE "ok",
                  result |-> IF compareThrew THEN "threw" ELSE compareResult.status])
           /\ IF turn.break \/ idx = Len(inputData.addresses)
              THEN /\ pc' = "matched"
                   /\ UNCHANGED idx
              ELSE /\ pc' = "getBytecode"
                   /\ idx' = idx + 1
    /\ UNCHANGED << procs, fs >>
    /\ UNCHANGED << chains, inputData, compilationResult, mode, address,
                    deployedBytecode, creationData, compareResult, compareThrew,
                    attempts, fetched, compared, resolved, store, error >>

\* Lines 386-414: the artifacts of a match are stored, and anything else
\* fails the request.
Finish ==
    /\ pc = "matched"
    /\ IF isMatch(match)
       THEN IF cborDecode(compilationResult.deployedBytecode) = "fail"
            THEN /\ Fail("cborDecode", FALSE)
                 /\ UNCHANGED << match, store >>
            ELSE LET p == persist(match, inputData.chain, compilationResult)
                 IN  /\ match' = p.match
                     /\ store' = store \o p.calls
                     /\ pc' = "done"
                     /\ UNCHANGED error
       ELSE /\ Fail(IF match.message # "undefined"
                    THEN match.message
                    ELSE "Could not match the deployed and recompiled bytecode.",
                    TRUE)
            /\ UNCHANGED << match, store >>
    /\ UNCHANGED << procs, fs >>
    /\ UNCHANGED << chains, inputData, compilationResult, mode, idx, address,
                    deployedBytecode, creationData, compareResult, compareThrew,
                    attempts, fetched, compared, resolved, tried >>

Next ==
    \/ Inject
    \/ FetchMissing
    \/ Recompile
    \/ GetBytecode
    \/ CompareBytecodes
    \/ Scrape
    \/ GraphQL
    \/ Archive
    \/ NotFound
    \/ CompareCreation
    \/ BypassReturn
    \/ LoopStep
    \/ Finish

Spec == Init /\ [][Next]_vars

-----------------------------------------------------------------------------
(* Several inject calls on one Injector. Each action is what one call does *)
(* from the await it was suspended at up to its next await; the calls      *)
(* share this.chains and this.fileService.                                 *)

\* The requests of the concurrent calls: one candidate each, or none, and
\* a contract that is to be completed, which is one await more.
ConcurrentRequests ==
    { [chain |-> "1", addresses |-> a, bytecode |-> UNDEFINED,
       creationData |-> UNDEFINED, contractValid |-> FALSE] :
        a \in SeqUpTo(Addresses, 1) }

\* What recompile returns to them: a runtime bytecode with a swarm hash in
\* its trailer.
ConcurrentArtifacts ==
    { [deployedBytecode |-> <<1>> \o BzzR0Trailer,
       bytecode |-> <<7, 1>> \o BzzR0Trailer] }

\* What the node answers them: the compiled code, other code as long.
ConcurrentDeployed == { <<1>> \o BzzR0Trailer, <<2>> \o BzzR0Trailer }

\* What a strategy does for them: reject, or resolve to the compiled
\* creation code with a constructor argument.
ConcurrentOutcomes == { THROW, <<7, 1>> \o BzzR0Trailer \o <<9>> }

\* The calls issued one at a time, an await after each.
callsBeforeAwaitOne(calls) == IF calls = << >> THEN 0 ELSE 1

\* Lines 386-401: there is no await among the calls on fileService, so the
\* turn that issues the first issues them all.
callsBeforeAwait(calls) == Len(calls)

\* Lines 161-191 for the one candidate: the comparison has returned or
\* thrown, the loop ends and the Match goes back to inject.
afterCompare(p, threw, result) ==
    LET step == loopBody(p.match, threw, result, p.deployed,
                         toChecksumAddress(p.input.addresses[1]),
                         Len(p.input.addresses))
    IN  [p EXCEPT !.match = step.match, !.pc = "matched"]

\* Lines 254-292: the next strategy is awaited, or getCreationData throws.
awaitStrategy(p, next) ==
    IF next = "notFound"
    THEN afterCompare(p, TRUE, Pending)
    ELSE [p EXCEPT !.pc = next]

\* Lines 336-346: inject up to its first await.
Verify(r) ==
    /\ procs[r].pc = "idle"
    /\ \E input \in ConcurrentRequests :
        procs' = [procs EXCEPT ![r] =
            [@ EXCEPT !.input = input,
                      !.pc = IF ~validateAddresses(input.addresses)
                                \/ ~validateChain(input.chain)
                             THEN "failed"
                             ELSE IF input.contractValid THEN "recompile"
                             ELSE "fetchMissing"]]
    /\ UNCHANGED << single, fs >>

\* Line 345: fetchMissing resolves or rejects.
Completed(r) ==
    /\ procs[r].pc = "fetchMissing"
    /\ \E ok \in BOOLEAN :
        procs' = [procs EXCEPT ![r].pc = IF ok THEN "recompile" ELSE "failed"]
    /\ UNCHANGED << single, fs >>

\* Lines 348-379 and 150-155: recompile resolves or rejects; the request,
\* which brings no bytecode, enters the loop and awaits getBytecode.
Compiled(r) ==
    /\ procs[r].pc = "recompile"
    /\ \E art \in ConcurrentArtifacts \cup {NoArtifact} :
        procs' = [procs EXCEPT ![r] =
            IF art = NoArtifact
            THEN [@ EXCEPT !.pc = "failed"]
            ELSE [@ EXCEPT !.compiled = art,
                           !.pc = IF dispatch(procs[r].input) = "loop"
                                  THEN "getBytecode" ELSE "failed"]]
    /\ UNCHANGED << single, fs >>

\* Lines 154-170 and 215-227: getBytecode resolves or rejects, and the
\* comparison runs up to a result or to its await of the first strategy.
Fetched(r) ==
    /\ procs[r].pc = "getBytecode"
    /\ \E answer \in ConcurrentDeployed \cup {THROW} :
        LET p == [procs[r] EXCEPT
                    !.deployed = IF answer = THROW THEN NULL ELSE answer]
            step == compareRuntime(p.deployed, p.compiled.deployedBytecode)
        IN  procs' = [procs EXCEPT ![r] =
                IF step = "creation" /\ needsResolver(NULL)
                THEN awaitStrategy(p, resolverEntry(chains))
                ELSE afterCompare(p, FALSE,
                        [status |-> IF step = "creation" THEN "null" ELSE step,
                         encodedConstructorArgs |-> NoArgs])]
    /\ UNCHANGED << single, fs >>

\* One awaited strategy resolves, and the comparison ends with its data, or
\* rejects, and the next one is awaited.
Resolve(r, next) ==
    /\ \E outcome \in ConcurrentOutcomes :
        procs' = [procs EXCEPT ![r] =
            IF outcome = THROW
            THEN awaitStrategy(@, next)
            ELSE afterCompare(@, FALSE,
                    compareCreation(outcome, procs[r].compiled.bytecode))]
    /\ UNCHANGED << single, fs >>

\* Lines 259-268.
Scraped(r) ==
    /\ procs[r].pc = "scrape"
    /\ Resolve(r, afterScrape(chains))

\* Lines 270-278.
Queried(r) ==
    /\ procs[r].pc = "graphql"
    /\ Resolve(r, afterGraphQL(chains))

\* Lines 280-288.
Searched(r) ==
    /\ procs[r].pc = "archive"
    /\ Resolve(r, "notFound")

\* Lines 386-414: after its last await inject stores the artifacts of a
\* match and returns, or throws. pending holds the calls that a turn has
\* left for the next one.
Store(r) ==
    /\ procs[r].pc \in {"matched", "storing"}
    /\ LET p == procs[r]
       IN  IF p.pc = "matched"
              /\ (~isMatch(p.match) \/ cborDecode(p.compiled.deployedBytecode) = "fail")
           THEN /\ procs' = [procs EXCEPT ![r].pc = "failed"]
                /\ UNCHANGED fs
           ELSE LET q == IF p.pc = "matched"
                         THEN persist(p.match, p.input.chain, p.compiled)
                         ELSE [match |-> p.match, calls |-> p.pending]
                    n == callsBeforeAwait(q.calls)
                IN  /\ fs' = fs \o [k \in 1..n |-> [req |-> r, call |-> q.calls[k]]]
                    /\ procs' = [procs EXCEPT ![r] =
                          [p EXCEPT !.match = q.match,
                                    !.pending = SubSeq(q.calls, n + 1, Len(q.calls)),
                                    !.pc = IF n = Len(q.calls)
                                           THEN "done" ELSE "storing"]]
    /\ UNCHANGED single

NextConcurrent ==
    \/ \E r \in RequestIds : Verify(r)
    \/ \E r \in RequestIds : Completed(r)
    \/ \E r \in RequestIds : Compiled(r)
    \/ \E r \in RequestIds : Fetched(r)
    \/ \E r \in RequestIds : Scraped(r)
    \/ \E r \in RequestIds : Queried(r)
    \/ \E r \in RequestIds : Searched(r)
    \/ \E r \in RequestIds : Store(r)

SpecConcurrent == Init /\ [][NextConcurrent]_vars

-----------------------------------------------------------------------------
(* Properties of the comparator.                                           *)

\* compareBytecodes has returned or thrown for the current candidate.
Returned == pc = "compared"

\* The creation data the caller handed to compareBytecodes.
Supplied == IF mode = "bypass" THEN inputData.creationData ELSE NULL

CompiledRuntime == compilationResult.deployedBytecode

CompiledCreation == compilationResult.bytecode

\* A deployed bytecode that is there and is not "0x".
HasCode(b) == b # NULL /\ b # UNDEFINED /\ b # << >>

\* The well-formed trailers of the model, and no trailer.
AnyTrailer == { << >>, BzzR0Trailer, BzzR1Trailer, IpfsTrailer, OtherTrailer }

\* a and b are the same code followed by different trailers.
SameButTrailer(a, b) ==
    /\ a # b
    /\ \E ta \in AnyTrailer, tb \in AnyTrailer :
         /\ Len(ta) <= Len(a)
         /\ Len(tb) <= Len(b)
         /\ SubSeq(a, Len(a) - Len(ta) + 1, Len(a)) = ta
         /\ SubSeq(b, Len(b) - Len(tb) + 1, Len(b)) = tb
         /\ SubSeq(a, 1, Len(a) - Len(ta)) = SubSeq(b, 1, Len(b) - Len(tb))

\* The length of the code that precedes the trailer of b.
CodeLen(b) ==
    IF \E t \in AnyTrailer \ {<< >>} :
          Len(t) <= Len(b) /\ SubSeq(b, Len(b) - Len(t) + 1, Len(b)) = t
    THEN Len(b) - 3
    ELSE Len(b)

\* p is a prefix of s.
IsPrefix(p, s) == Len(p) <= Len(s) /\ \A k \in 1..Len(p) : s[k] = p[k]

\* The runtime comparison neither matched nor rejected: the comparison went
\* on to the creation data.
ReachedCreationStep ==
    /\ HasCode(deployedBytecode)
    /\ deployedBytecode # CompiledRuntime
    /\ ~SameButTrailer(deployedBytecode, CompiledRuntime)
    /\ CodeLen(deployedBytecode) = CodeLen(CompiledRuntime)

\* C1: a deployed bytecode that is present, is not "0x" and equals the
\* compiled runtime bytecode compares as perfect (exact) with no constructor
\* arguments and without a resolver call, whatever creation data was supplied.
C1_ExactByEquality ==
    (Returned /\ HasCode(deployedBytecode) /\ deployedBytecode = CompiledRuntime)
        => /\ ~compareThrew
           /\ compareResult = [status |-> "perfect", encodedConstructorArgs |-> NoArgs]
           /\ resolved[idx] = 0
           /\ attempts = << >>

C1_Witness ==
    /\ Returned
    /\ mode = "bypass"
    /\ HasCode(deployedBytecode)
    /\ deployedBytecode = CompiledRuntime
    /\ Supplied \in CreationPool
    /\ compareResult.status = "perfect"

\* C2: a deployed bytecode with code that differs from the compiled runtime
\* bytecode only in its trailer compares as partial with no constructor
\* arguments.
C2_PartialByTrailer ==
    (Returned /\ HasCode(deployedBytecode)
        /\ SameButTrailer(deployedBytecode, CompiledRuntime))
        => /\ ~compareThrew
           /\ compareResult = [status |-> "partial", encodedConstructorArgs |-> NoArgs]

C2_Witness ==
    /\ Returned
    /\ deployedBytecode = <<1>> \o BzzR1Trailer
    /\ CompiledRuntime = <<1>> \o BzzR0Trailer
    /\ compareResult.status = "partial"

\* C3: a compare calls the resolver at most once, and only for a deployed
\* bytecode with code that is not the compiled one, not even up to the
\* trailer, has the compiled code's trimmed length, and when the caller
\* supplied no creation data; strategies run only inside such a call; when
\* the trimmed lengths differ there is no resolver call and the result is
\* null (none).
C3_ResolverGating ==
    /\ \A k \in Candidates : resolved[k] <= 1 /\ resolved[k] <= compared[k]
    /\ compared[idx] <= 1
    /\ (pc # "getBytecode" /\ attempts # << >>) => resolved[idx] = 1
    /\ pc \in {"scrape", "graphql", "archive", "notFound"} => resolved[idx] = 1
    /\ resolved[idx] = 1 =>
          /\ ReachedCreationStep
          /\ Supplied \in {NULL, UNDEFINED}
    /\ (Returned /\ CodeLen(deployedBytecode) # CodeLen(CompiledRuntime)) =>
          /\ resolved[idx] = 0
          /\ ~compareThrew
          /\ compareResult.status = "null"

C3_Witness ==
    /\ Returned
    /\ mode = "bypass"
    /\ resolved[idx] = 1
    /\ Len(attempts) = 2

\* C4: when the comparison reaches the creation data and the creation data
\* starts with the whole compiled creation bytecode, the result is perfect
\* (exact) and its constructor arguments are the bytes of the creation data
\* that follow that prefix, none when the two are equal.
C4_ExactByCreationData ==
    (Returned /\ ~compareThrew /\ ReachedCreationStep
        /\ creationData # NULL /\ creationData # UNDEFINED
        /\ IsPrefix(CompiledCreation, creationData))
        => /\ compareResult.status = "perfect"
           /\ compareResult.encodedConstructorArgs # NoArgs
           /\ CompiledCreation \o compareResult.encodedConstructorArgs = creationData
           /\ (creationData = CompiledCreation
                 => compareResult.encodedConstructorArgs = << >>)

C4_Witness ==
    /\ Returned
    /\ ReachedCreationStep
    /\ creationData = CompiledCreation \o <<9>>
    /\ compareResult.status = "perfect"
    /\ compareResult.encodedConstructorArgs = <<9>>

\* C5: a result of compare carries constructor arguments only when it is
\* perfect (exact) by the creation data; a result that is perfect by the
\* equality of the runtime bytecodes, a partial one and a null one carry none.
C5_ConstructorArgsOnlyByCreationData ==
    /\ compareResult.encodedConstructorArgs # NoArgs =>
          /\ compareResult.status = "perfect"
          /\ ReachedCreationStep
          /\ creationData # NULL /\ creationData # UNDEFINED
          /\ IsPrefix(CompiledCreation, creationData)
    /\ compareResult.status \in {"partial", "null", "pending"} =>
          compareResult.encodedConstructorArgs = NoArgs
    /\ (Returned /\ deployedBytecode = CompiledRuntime) =>
          compareResult.encodedConstructorArgs = NoArgs

C5_Witness ==
    /\ Returned
    /\ ReachedCreationStep
    /\ creationData \in CreationPool
    /\ ~IsPrefix(CompiledCreation, creationData)
    /\ compareResult = [status |-> "partial", encodedConstructorArgs |-> NoArgs]

-----------------------------------------------------------------------------
(* Properties of the resolver.                                             *)

\* The strategies the chain configures, in the order of the design.
Configured ==
    (IF chains.contractFetchAddress /\ chains.txRegex THEN << "scrape" >> ELSE << >>)
      \o (IF chains.graphQLFetchAddress THEN << "graphql" >> ELSE << >>)
      \o (IF chains.archiveWeb3 THEN << "archive" >> ELSE << >>)

\* getCreationData was called for the current candidate and is running.
Resolving == pc \in {"scrape", "graphql", "archive", "notFound"}

\* getCreationData was called for the current candidate and has ended.
Resolved == resolved[idx] = 1 /\ ~Resolving

\* Every configured strategy was tried and rejected, which is also the
\* case when none is configured.
AllStrategiesFailed ==
    /\ Len(attempts) = Len(Configured)
    /\ \A k \in 1..Len(attempts) : attempts[k].outcome = THROW

\* C6 (the claim as stated): when the resolver fails with NotFound during a
\* compare, compare returns status null (none) and does not pass the
\* resolver's error on to its caller.
C6_NotFoundAbsorbed ==
    (Returned /\ Resolved /\ AllStrategiesFailed)
        => /\ ~compareThrew
           /\ compareResult.status = "null"

C8_EmptyResultFallsThrough ==
    Resolved =>
        \A k \in 1..Len(attempts) :
            attempts[k].outcome = NULL =>
                /\ attempts[k].logged
                /\ k < Len(Configured) => Len(attempts) > k

-----------------------------------------------------------------------------
(* Properties of the candidate loop.                                       *)

Matching == {"perfect", "partial"}

\* The checksummed form of each address of the model.
ChecksumOf == [a \in Addresses |-> IF a = "a1" THEN "A1" ELSE "A2"]

\* matchBytecodeToAddress has returned into inject.
LoopReturned == mode = "loop" /\ pc = "matched"

\* C9: the loop takes the candidates in the supplied order, fetching and
\* comparing each once; only the last candidate it took can have matched;
\* when one matched, the match returned is its checksummed address, its
\* status and no message, and nothing was fetched, compared or resolved for
\* a candidate after it.
C9_FirstMatchWins ==
    mode = "loop" =>
        /\ Len(tried) <= Len(inputData.addresses)
        /\ \A k \in 1..Len(tried) :
              /\ tried[k].address = ChecksumOf[inputData.addresses[k]]
              /\ fetched[k] = 1 /\ compared[k] = 1
              /\ k < Len(tried) => tried[k].result \notin Matching
        /\ \A k \in Candidates :
              k > Len(tried) + 1 => fetched[k] = 0 /\ compared[k] = 0 /\ resolved[k] = 0
        /\ (LoopReturned /\ tried[Len(tried)].result \in Matching) =>
              /\ match.address = ChecksumOf[inputData.addresses[Len(tried)]]
              /\ match.status = tried[Len(tried)].result
              /\ match.message = "undefined"
              /\ \A k \in Candidates :
                    k > Len(tried) =>
                        fetched[k] = 0 /\ compared[k] = 0 /\ resolved[k] = 0
        /\ (LoopReturned /\ tried[Len(tried)].result \notin Matching) =>
              match.status = "null"

C9_Witness ==
    /\ LoopReturned
    /\ inputData.addresses = << "a1", "a2" >>
    /\ Len(tried) = 2
    /\ tried[1].fetch = "ok"
    /\ tried[1].result = "null"
    /\ tried[2].result = "perfect"
    /\ match.address = "A2"
    /\ match.message = "undefined"

\* C10: a candidate whose bytecode cannot be fetched does not match and, when
\* it is the only one, is reported as unavailable; neither it nor a candidate
\* whose comparison throws the resolver's error ends the loop or fails it:
\* the loop returns only after a match or after the last candidate, a later
\* match is what it returns, and inject fails in this mode only after the
\* loop has returned, never with the resolver's error.
C10_FailedCandidateDoesNotAbort ==
    mode = "loop" =>
        /\ \A k \in 1..Len(tried) :
              tried[k].fetch = "failed" => tried[k].result = "null"
        /\ pc \in {"matched", "done", "failed"} =>
              /\ tried # << >>
              /\ \/ Len(tried) = Len(inputData.addresses)
                 \/ tried[Len(tried)].result \in Matching
        /\ (LoopReturned /\ tried[Len(tried)].result \in Matching) =>
              /\ match.status = tried[Len(tried)].result
              /\ match.address = tried[Len(tried)].address
        /\ (LoopReturned /\ Len(inputData.addresses) = 1
              /\ tried[1].fetch = "failed") =>
              match.message = "unavailable"
        /\ pc = "failed" => error.cause # "Cannot fetch creation data"
        /\ pc # "failed" => error = NoError

C10_Witness ==
    /\ LoopReturned
    /\ Len(tried) = 2
    /\ tried[1].fetch = "failed"
    /\ tried[2].result \in Matching
    /\ match.address = tried[2].address

-----------------------------------------------------------------------------
(* Properties of the diagnostic.                                           *)

GenericMessage == "Could not match the deployed and recompiled bytecode."

\* The loop has returned without a match.
LoopFoundNone ==
    /\ mode = "loop"
    /\ pc \in {"matched", "failed"}
    /\ tried # << >>
    /\ tried[Len(tried)].result \notin Matching

\* C11 (the claim as stated): with one candidate and no match, the diagnostic
\* follows from the fetched bytecode alone: unavailable when the fetch
\* failed, no contract when it is "0x", mismatch whenever there is code; and
\* inject fails with an error that names the contract and carries it.
C11_DiagnosticByBytecodeAlone ==
    (LoopFoundNone /\ Len(inputData.addresses) = 1) =>
        LET expected ==
                IF tried[1].fetch = "failed" THEN "unavailable"
                ELSE IF deployedBytecode = << >> THEN "noContract"
                ELSE "mismatch"
        IN  /\ match.message = expected
            /\ pc = "failed" => error = [named |-> TRUE, cause |-> expected]

\* C12: with more than one candidate the Match of the loop never carries a
\* message, whatever happened to the candidates, and when none matched
\* inject fails with an error that names the contract and carries the
\* generic message only.
C12_NoDiagnosticForSeveral ==
    (mode = "loop" /\ Len(inputData.addresses) > 1) =>
        /\ match.message = "undefined"
        /\ (LoopFoundNone /\ pc = "failed") =>
              error = [named |-> TRUE, cause |-> GenericMessage]

C12_Witness ==
    /\ LoopFoundNone
    /\ pc = "failed"
    /\ Len(tried) = 2
    /\ tried[1].fetch = "failed"
    /\ tried[2].result = "threw"
    /\ error.cause = GenericMessage

\* C13: nothing is stored without a match. A call that failed, with a
\* validation error or a match error or otherwise, has made no persistence
\* call, and whatever is stored was stored for a match of status perfect or
\* partial; the error of a call that found no match names the contract and
\* carries the diagnostic of the Match or, without one, the generic message.
C13_NothingStoredWithoutMatch ==
    /\ pc = "failed" => store = << >>
    /\ store # << >> => pc = "done" /\ isMatch(match) /\ match.status \in Matching
    /\ pc = "matched" => store = << >>
    /\ (pc = "failed" /\ error.named) =>
          /\ ~isMatch(match)
          /\ error.cause = IF match.message # "undefined"
                           THEN match.message ELSE GenericMessage

\* A bypass comparison returned status null: the Match has an address and
\* no status, inject failed with the generic message and stored nothing.
C13_Witness ==
    /\ pc = "failed"
    /\ mode = "bypass"
    /\ match.address # NullAddress
    /\ match.status = "null"
    /\ error = [named |-> TRUE, cause |-> GenericMessage]
    /\ store = << >>

-----------------------------------------------------------------------------
(* Properties of persistence.                                              *)

\* b ends with the trailer t.
EndsWith(b, t) ==
    Len(t) <= Len(b) /\ SubSeq(b, Len(b) - Len(t) + 1, Len(b)) = t

\* The content address that the trailer of b names.
PathOfTrailer(b) ==
    IF EndsWith(b, BzzR0Trailer) THEN "/swarm/bzzr0/hash"
    ELSE IF EndsWith(b, BzzR1Trailer) THEN "/swarm/bzzr1/hash"
    ELSE IF EndsWith(b, IpfsTrailer) THEN "/ipfs/multihash"
    ELSE "null"

ContentPaths == {"/swarm/bzzr0/hash", "/swarm/bzzr1/hash", "/ipfs/multihash"}

\* The positions in store of the saves under a match quality.
TaggedSaves ==
    {i \in DOMAIN store : store[i].op = "save" /\ store[i].quality # ""}

\* The quality of the claim: full for an exact comparison with a path.
QualityOfRecord ==
    IF compareResult.status = "perfect" /\ PathOfTrailer(CompiledRuntime) # "null"
    THEN "full"
    ELSE "partial"

C14_Downgraded ==
    /\ pc = "done"
    /\ compareResult.status = "perfect"
    /\ match.status = "partial"
    /\ \A i \in TaggedSaves : store[i].quality = "partial"

-----------------------------------------------------------------------------
(* Properties of the entry of inject.                                      *)

MultipleAddresses ==
    "Injector cannot work with multiple addresses if bytecode is provided"

\* The request is past validation and compilation.
Dispatched ==
    /\ pc \notin {"idle", "fetchMissing", "recompile"}
    /\ compilationResult # NoArtifact

\* C15: a request that brings its bytecode never fetches one. With a number
\* of addresses other than one it fails with the error of that name before
\* any comparison, resolver call or persistence call; with one address the
\* bytecode and the creation data of the request are what is compared, and
\* the resolver is asked only when the request brought no creation data.
C15_BypassNeedsOneAddress ==
    (pc # "idle" /\ Truthy(inputData.bytecode)) =>
        /\ \A k \in Candidates : fetched[k] = 0
        /\ mode # "loop"
        /\ (Dispatched /\ Len(inputData.addresses) # 1) =>
              /\ pc = "failed"
              /\ error = [named |-> FALSE, cause |-> MultipleAddresses]
              /\ \A k \in Candidates : compared[k] = 0 /\ resolved[k] = 0
              /\ store = << >>
        /\ mode = "bypass" =>
              /\ Len(inputData.addresses) = 1
              /\ deployedBytecode = inputData.bytecode
              /\ \A k \in Candidates : compared[k] <= 1
              /\ Truthy(inputData.creationData) =>
                    /\ creationData = inputData.creationData
                    /\ \A k \in Candidates : resolved[k] = 0

\* The supplied bytecode and creation data were compared and stored.
C15_Witness ==
    /\ pc = "done"
    /\ mode = "bypass"
    /\ Truthy(inputData.creationData)
    /\ compared[1] = 1
    /\ match.status = "perfect"
    /\ match.encodedConstructorArgs = <<9>>

\* Two addresses with a bytecode: rejected after compilation.
C15_Rejected ==
    /\ pc = "failed"
    /\ Len(inputData.addresses) = 2
    /\ Truthy(inputData.bytecode)
    /\ compilationResult # NoArtifact
    /\ error.cause = MultipleAddresses

MissingAddress == "Missing address for submitted sources/metadata"

MissingChain == "Missing chain name for submitted sources/metadata"

\* The addresses of a request that passes validation.
AddressesPresent(r) ==
    Len(r.addresses) >= 1 /\ \A k \in DOMAIN r.addresses : r.addresses[k] # NullAddress

\* The chain of a request that passes validation: a non-empty string.
ChainPresent(r) == r.chain \notin {"", NonStringChain}

\* C16: a request with no address, with a null address, or with a chain
\* that is missing or not a string fails at once with the validation error
\* of its defect (the addresses first), before the contract is completed or
\* compiled and before any fetch, comparison, resolver call or persistence
\* call; every request that got further has at least one address, no null
\* address and a non-empty string for its chain.
C16_ValidationFailsFast ==
    pc # "idle" =>
        /\ ~AddressesPresent(inputData) =>
              pc = "failed" /\ error = [named |-> FALSE, cause |-> MissingAddress]
        /\ (AddressesPresent(inputData) /\ ~ChainPresent(inputData)) =>
              pc = "failed" /\ error = [named |-> FALSE, cause |-> MissingChain]
        /\ error.cause \in {MissingAddress, MissingChain} =>
              /\ compilationResult = NoArtifact
              /\ mode = "none"
              /\ \A k \in Candidates :
                    fetched[k] = 0 /\ compared[k] = 0 /\ resolved[k] = 0
              /\ attempts = << >>
              /\ store = << >>
        /\ (pc # "failed" \/ error.cause \notin {MissingAddress, MissingChain}) =>
              AddressesPresent(inputData) /\ ChainPresent(inputData)

\* A request whose chain is not a string, its addresses being in order.
C16_Witness ==
    /\ pc = "failed"
    /\ AddressesPresent(inputData)
    /\ inputData.chain = NonStringChain
    /\ error.cause = MissingChain
    /\ compilationResult = NoArtifact

-----------------------------------------------------------------------------
(* Properties of the errors.                                               *)

ResolverFailure == "Cannot fetch creation data"

\* The failures of the collaborators, which inject passes on as they are.
CollaboratorFailures == {"fetchMissing", "recompile", "cborDecode"}

\* C17 (the claim as stated): every error of inject's own making, be it a
\* validation failure, several addresses with a bytecode, a resolver
\* failure or no match, names the contract with its cause, and the
\* resolver's failure is never the error that the caller gets.
C17_FatalErrorsNameTheContract ==
    (pc = "failed" /\ error.cause \notin CollaboratorFailures) =>
        /\ error.named
        /\ error.cause # ResolverFailure

-----------------------------------------------------------------------------
(* Properties of the content address.                                      *)

\* inject has ended for a request whose comparison found a match.
EndedWithMatch == pc \in {"done", "failed"} /\ isMatch(match)

\* The positions in store of the saves at a content address.
PathSaves ==
    {i \in DOMAIN store : store[i].op = "save" /\ store[i].quality = ""}

\* C18 (the claim as stated): a matched request ends well whatever its
\* trailer. A trailer with a swarm-v0, swarm-v1 or IPFS hash gives the path
\* of that hash, under which the metadata is saved; a trailer without any
\* of them, and a trailer that cannot be decoded, give null, which is no
\* error: nothing is saved at a content address and the match is stored as
\* partial.
C18_NullPathIsNotFatal ==
    EndedWithMatch =>
        /\ pc = "done"
        /\ PathOfTrailer(CompiledRuntime) # "null" =>
              {store[i].fileName : i \in PathSaves} = {PathOfTrailer(CompiledRuntime)}
        /\ PathOfTrailer(CompiledRuntime) = "null" =>
              /\ PathSaves = {}
              /\ match.status = "partial"
              /\ \A i \in TaggedSaves : store[i].quality = "partial"

\* The content addresses under which the metadata was saved.
SavedPaths == {store[i].fileName : i \in PathSaves}

\* The content address, if any, in the trailer of b.
PathsOf(b) == IF PathOfTrailer(b) = "null" THEN {} ELSE {PathOfTrailer(b)}

\* C19 (the claim as stated): the metadata of a stored match is saved under
\* the content address in the trailer of the deployed bytecode, the one that
\* was fetched or handed over and compared.
C19_PathFromDeployedBytecode ==
    pc = "done" => SavedPaths = PathsOf(deployedBytecode)

\* C19 (amended): the metadata of a stored match is saved under the content
\* address in the trailer of the compiled runtime bytecode; the trailer of
\* the deployed bytecode plays no part, so a partial match whose trailers
\* differ is stored under the hash of the compiled bytecode.
C19_PathFromCompiledBytecode ==
    pc = "done" => SavedPaths = PathsOf(CompiledRuntime)

\* A partial match of a deployed bytecode with a swarm-v1 trailer and a
\* compiled one with a swarm-v0 trailer, saved under the swarm-v0 address.
C19_Witness ==
    /\ pc = "done"
    /\ compareResult.status = "partial"
    /\ PathOfTrailer(deployedBytecode) = "/swarm/bzzr1/hash"
    /\ PathOfTrailer(CompiledRuntime) = "/swarm/bzzr0/hash"
    /\ SavedPaths = {"/swarm/bzzr0/hash"}

\* The positions in store of the calls of deletePartial.
Deletes == {i \in DOMAIN store : store[i].op = "deletePartial"}

\* C20: a stored match whose bytecode has a content address has saved its
\* metadata there once and then called deletePartial once, for the chain of
\* the request and the address of the Match, before the first save under
\* the match quality, be the match perfect or partial; a stored match
\* without a content address has done neither.
C20_DeletePartialFirst ==
    pc = "done" =>
        /\ PathOfTrailer(CompiledRuntime) # "null" =>
              /\ Cardinality(PathSaves) = 1
              /\ Cardinality(Deletes) = 1
              /\ \A d \in Deletes :
                    /\ store[d].chain = inputData.chain
                    /\ store[d].address = match.address
                    /\ \A i \in PathSaves : i < d
                    /\ \A i \in TaggedSaves : d < i
              /\ TaggedSaves # {}
        /\ PathOfTrailer(CompiledRuntime) = "null" =>
              PathSaves = {} /\ Deletes = {}

\* A partial match with a content address: deletePartial is the second
\* call and the partial saves follow it.
C20_Witness ==
    /\ pc = "done"
    /\ match.status = "partial"
    /\ Len(store) >= 5
    /\ store[1].fileName \in ContentPaths
    /\ store[2].op = "deletePartial"
    /\ \A i \in 3..Len(store) : store[i].op = "save" /\ store[i].quality = "partial"

-----------------------------------------------------------------------------
(* Properties of concurrent calls.                                         *)

\* The positions in fs of the calls of request r.
CallsOf(r) == {i \in DOMAIN fs : fs[i].req = r}

\* The calls of request r are one block of fs, which holds what persist
\* issues for its Match, in that order.
OneBlock(r) ==
    LET block == persist(procs[r].match, procs[r].input.chain, procs[r].compiled).calls
    IN  /\ Cardinality(CallsOf(r)) = Len(block)
        /\ \E first \in DOMAIN fs :
              \A k \in DOMAIN block :
                  /\ first + k - 1 \in DOMAIN fs
                  /\ fs[first + k - 1] = [req |-> r, call |-> block[k]]

\* Every request has either made no call on fileService, or has returned
\* and made all its calls with no call of another request among them.
PersistedInBlocks ==
    \A r \in RequestIds :
        IF procs[r].pc = "done" THEN OneBlock(r) ELSE CallsOf(r) = {}

\* C21: of concurrent inject calls that interleave at their awaits, each
\* makes all its calls on fileService (the save at the content address,
\* deletePartial, the saves of sources, metadata and constructor arguments)
\* in the turn after its last await, in which it returns: they stand in the
\* order of persist as one block, with no call of another request among
\* them, be it for the same chain and address; and no step of any call
\* writes the chain configuration.
C21_AtomicPersistence ==
    /\ []PersistedInBlocks
    /\ [][chains' = chains]_vars

\* Two requests for the same chain and address have both returned, the
\* second having stored its block before the first.
C21_Witness ==
    /\ procs[1].pc = "done"
    /\ procs[2].pc = "done"
    /\ procs[1].input.addresses = procs[2].input.addresses
    /\ fs[1].req = 2
    /\ fs[Len(fs)].req = 1
    /\ Len(fs) >= 10

\* A request has stored its block while another one for the same address
\* is suspended at a strategy of the resolver.
C21_StoredWhileOtherSuspended ==
    /\ procs[1].pc = "done"
    /\ procs[2].pc \in {"scrape", "graphql", "archive"}
    /\ procs[1].input.addresses = procs[2].input.addresses
    /\ CallsOf(1) # {}

====
